---- MODULE Spec2Model ----
(***************************************************************************)
(* Swag Labs checkout flow: the InventoryPage random selector              *)
(* (pages/InventoryPage.js), the CartPage / CheckoutPage / LoginPage       *)
(* page objects and the linear checkout test (fixtures + checkout test).   *)
(*                                                                         *)
(* The storefront and the browser driver are the environment: what a       *)
(* locator reads (a text, a count, the location after a navigation) is an  *)
(* input drawn from a small set.  A text is a string; the value null that  *)
(* textContent() may return is the reserved token NULL.                    *)
(***************************************************************************)
EXTENDS Integers, Sequences, FiniteSets, TLC

(* ------------------------------ bounds -------------------------------- *)
MaxCatalog == 3          \* largest number of rendered .inventory_item entries
MaxCount == 4            \* largest count passed to addRandomItemsToCart
MaxCartShown == 4        \* largest number of .cart_item entries a screen shows

(* ------------------------------ texts --------------------------------- *)
NULL == "<null>"
\* the texts an .inventory_item_name is taken to hold
NameTexts == {NULL, "", "Backpack", "Bike Light", "Onesie"}

\* the names a cart screen is taken to show
ShownNames == {"Backpack", "Bike Light", "Onesie"}

\* JavaScript truthiness of a string-or-null value
Truthy(t) == t # NULL /\ t # ""

\* a || b on string-or-null values
OrElse(t, d) == IF Truthy(t) THEN t ELSE d

DigitChar == <<"0", "1", "2", "3", "4", "5", "6", "7", "8", "9">>

\* the decimal text of a natural number
RECURSIVE Decimal(_)
Decimal(n) ==
  IF n < 10 THEN DigitChar[n + 1]
  ELSE Decimal(n \div 10) \o DigitChar[(n % 10) + 1]

Min(a, b) == IF a < b THEN a ELSE b

Range(s) == {s[i] : i \in 1..Len(s)}

SeqsUpTo(S, n) == UNION {[1..m -> S] : m \in 0..n}

(* ------------------------------ state --------------------------------- *)
VARIABLES
  catalog,        \* names of the rendered .inventory_item entries, in order
  pc,             \* position inside InventoryPage.addRandomItemsToCart
  count,          \* the argument of addRandomItemsToCart
  itemCount,      \* const itemCount
  randomIndices,  \* the Set, as the sequence of its members in insertion order
  pos,            \* position of the for-of iterator in randomIndices
  itemName,       \* const itemName of the current iteration
  addedItems,     \* const addedItems
  events,         \* the driver operations issued on catalog entries, in order
  badgeText,      \* what cartBadge.textContent() returned
  cartCount,      \* what InventoryPage.getCartItemCount returned
  step,           \* position inside the checkout test
  urls,           \* the locations the toHaveURL guards observed, in order
  cartItemCount,  \* const cartItemCount
  cartItemNames,  \* const cartItemNames
  record,         \* the faker-generated first name, last name, postal code
  overviewItems,  \* const overviewItems
  confirmationText, \* const confirmationText
  completeText,   \* the text of checkoutPage.completeText
  visited,        \* the flow states entered, in order
  ops,            \* the transition actions issued, in order
  violated,       \* the first guard that did not hold, or NoGuard
  rejected,       \* the driver operation that was rejected, if one was
  peer            \* a second run's addRandomItemsToCart on its own page

selectorVars == <<catalog, pc, count, itemCount, randomIndices, pos, itemName,
                  addedItems, events, badgeText, cartCount>>

flowVars == <<step, urls, cartItemCount, cartItemNames, record, overviewItems,
              confirmationText, completeText, visited, ops, violated>>

vars == <<selectorVars, flowVars, rejected, peer>>

Catalogs == SeqsUpTo(NameTexts, MaxCatalog)

\* an array push in place of Set.prototype.add
SetAddPush(s, i) == Append(s, i)

\* Set.prototype.add: insertion order is kept, a member is not added twice
SetAdd(s, i) == IF i \in Range(s) THEN s ELSE Append(s, i)

\* the values Math.floor(Math.random() * itemCount) can take
RandomIndex(n) == IF n = 0 THEN {0} ELSE 0..(n - 1)

\* an iteration from the last member added to the first
IndexAtReversed(s, p) == s[Len(s) + 1 - p]

\* the member the for-of iterator yields at position p
IndexAt(s, p) == s[p]

\* whether this.inventoryItems.nth(index) resolves to a rendered entry
Rendered(index) == index + 1 \in DOMAIN catalog

\* the loop condition without the Math.min clamp
DrawMoreUnclamped(size, c, n) == size < c

\* the loop condition with <= in place of <
DrawMoreInclusive(size, c, n) == size <= Min(c, n)

\* the loop condition of the draw loop
DrawMore(size, c, n) == size < Min(c, n)

\* addedItems.push(itemName) without the if
PushNameAlways(items, name) == Append(items, name)

\* if (itemName) addedItems.push(itemName)
PushName(items, name) == IF Truthy(name) THEN Append(items, name) ELSE items

ReadEvent(i) == [op |-> "read", index |-> i]
ClickEvent(i) == [op |-> "click", index |-> i]

\* the indices whose add-to-cart button was clicked, in click order
Clicked == SelectSeq(events, LAMBDA e : e.op = "click")

\* the rejection is caught and the awaited operation is tried again
RejectionRetried(at) == at

\* a rejected await outside any try block rejects the async method from
\* the position at
Rejection(at) == "threw"

\* one Set kept across invocations
SharedSet(other) == other

\* const randomIndices = new Set(): empty, whatever Set another invocation
\* holds
NewSet(other) == <<>>

\* a call of getItemCount() in the loop condition
LiveItemCount == Len(catalog)

\* the const itemCount as the draw loop reads it
LoopItemCount == itemCount

NoRejection == <<>>

\* the local state of an addRandomItemsToCart invocation that has not started
IdleRun == [pc |-> "idle", count |-> 0, itemCount |-> 0, randomIndices |-> <<>>,
            pos |-> 0, itemName |-> NULL, addedItems |-> <<>>, events |-> <<>>]

BadgeTexts == {NULL, ""} \cup {Decimal(i) : i \in 0..(MaxCatalog + 1)}

(* ---------------- InventoryPage.addRandomItemsToCart ------------------ *)
\* const itemCount = await this.getItemCount(); addedItems = []; new Set()
GetItemCount ==
  /\ pc = "called"
  /\ itemCount' = Len(catalog)
  /\ addedItems' = <<>>
  /\ randomIndices' = NewSet(peer.randomIndices)
  /\ pc' = "draw"
  /\ UNCHANGED <<rejected, peer, flowVars, catalog, count, pos, itemName, events, badgeText, cartCount>>

\* one iteration of the while loop
Draw ==
  /\ pc = "draw"
  /\ DrawMore(Len(randomIndices), count, LoopItemCount)
  /\ \E i \in RandomIndex(LoopItemCount) : randomIndices' = SetAdd(randomIndices, i)
  /\ UNCHANGED <<rejected, peer, flowVars, catalog, pc, count, itemCount, pos, itemName, addedItems,
                 events, badgeText, cartCount>>

\* the while loop exits and the for-of loop starts
DrawDone ==
  /\ pc = "draw"
  /\ ~DrawMore(Len(randomIndices), count, LoopItemCount)
  /\ pos' = 1
  /\ pc' = "iterate"
  /\ UNCHANGED <<rejected, peer, flowVars, catalog, count, itemCount, randomIndices, itemName,
                 addedItems, events, badgeText, cartCount>>

\* item = nth(index); itemName = await item.locator(name).textContent()
ReadName ==
  /\ pc = "iterate"
  /\ pos <= Len(randomIndices)
  /\ LET index == IndexAt(randomIndices, pos) IN
       /\ Rendered(index)
       /\ itemName' = catalog[index + 1]
       /\ events' = Append(events, ReadEvent(index))
  /\ pc' = "click"
  /\ UNCHANGED <<rejected, peer, flowVars, catalog, count, itemCount, randomIndices, pos, addedItems,
                 badgeText, cartCount>>

\* await item.locator(add-to-cart).click(); if (itemName) push
ClickAdd ==
  /\ pc = "click"
  /\ Rendered(IndexAt(randomIndices, pos))
  /\ events' = Append(events, ClickEvent(IndexAt(randomIndices, pos)))
  /\ addedItems' = PushName(addedItems, itemName)
  /\ pos' = pos + 1
  /\ pc' = "iterate"
  /\ UNCHANGED <<rejected, peer, flowVars, catalog, count, itemCount, randomIndices, itemName,
                 badgeText, cartCount>>

\* the name read or the click fails in the driver (element unavailable)
ElementUnavailable ==
  /\ pc \in {"click"} \/ (pc = "iterate" /\ pos <= Len(randomIndices))
  /\ rejected' = <<IF pc = "click" THEN ClickEvent(IndexAt(randomIndices, pos))
                                   ELSE ReadEvent(IndexAt(randomIndices, pos))>>
  /\ pc' = Rejection(pc)
  /\ UNCHANGED <<peer, flowVars, catalog, count, itemCount, randomIndices, pos, itemName,
                 addedItems, events, badgeText, cartCount>>

\* return addedItems
Return ==
  /\ pc = "iterate"
  /\ pos > Len(randomIndices)
  /\ pc' = "returned"
  /\ UNCHANGED <<rejected, peer, flowVars, catalog, count, itemCount, randomIndices, pos, itemName,
                 addedItems, events, badgeText, cartCount>>

AddRandomItemsToCart ==
  \/ GetItemCount
  \/ Draw
  \/ DrawDone
  \/ ReadName
  \/ ClickAdd
  \/ ElementUnavailable
  \/ Return

(* ------------------- InventoryPage.getCartItemCount ------------------- *)
\* getCartItemCount without the || '0' default
GetCartItemCountNoDefault(text) == text

\* return await this.cartBadge.textContent() || '0'
GetCartItemCount(text) == OrElse(text, "0")

(* ------------------------- the checkout test -------------------------- *)
ItemsToAdd == 3
ExpectedAdded == 3
ExpectedBadge == "3"
ExpectedCartCount == 3
ExpectedCartNames == 3
ExpectedOverview == 3
ExpectedHeader == "Thank you for your order!"
ExpectedNotice == "Your order has been dispatched"

NoGuard == "none"

FlowOrder == <<"Unauthenticated", "Authenticated", "ItemsSelected",
               "CartReview", "DetailsEntry", "Overview", "Completed">>

ActionOrder == <<"submitCredentials", "selectRandom", "openCart",
                 "proceedToCheckout", "submitDetails", "confirmOrder">>

Locations == {"/", "/inventory.html", "/cart.html", "/checkout-step-one.html",
              "/checkout-step-two.html", "/checkout-complete.html"}

\* toHaveURL(/.*<file>/) on the paths of Locations
UrlMatches(url, file) == url = "/" \o file

HeaderTexts == {NULL, "", ExpectedHeader, "Sorry, something went wrong"}

\* a text as the sequence of its sentences
BodyTexts == {<<>>,
              <<ExpectedNotice, "and will arrive as fast as the pony can get there">>,
              <<"Your order could not be placed">>}

\* toContainText
ContainsText(text, part) == \E i \in 1..Len(text) : text[i] = part

\* first name, last name, postal code as faker may produce them
Records == {<<"Ann", "Lee", "12345">>, <<"Bo", "Ng", "99999">>}
NoRecord == <<>>

\* expect.soft: a false condition is recorded and the test goes on
ExpectSoft(ok, next) == next

\* a false condition reruns the test from its fixtures
ExpectRetry(ok, next) == IF ok THEN next ELSE "fixture"

\* expect(...) throws when the condition is false; otherwise the test goes on
Expect(ok, next) == IF ok THEN next ELSE "failed"

\* the guards, in the order and with the literals of the test
InventoryUrlOk(url) == UrlMatches(url, "inventory.html")
\* toBeLessThanOrEqual in place of toBe
AddedOkAtMost(items) == Len(items) <= ExpectedAdded
AddedOk(items) == Len(items) = ExpectedAdded
BadgeOk(text) == text = ExpectedBadge
CartUrlOk(url) == UrlMatches(url, "cart.html")
CartCountOk(n) == n = ExpectedCartCount
CartNamesOk(names) == Len(names) = ExpectedCartNames
\* the loop leaves after its first iteration
ContainsFirst(names, items) == Len(items) > 0 => items[1] \in Range(names)

\* for (const itemName of addedItems) expect(cartItemNames).toContain(itemName)
ContainsAll(names, items) == \A i \in 1..Len(items) : items[i] \in Range(names)
StepOneUrlOk(url) == UrlMatches(url, "checkout-step-one.html")
StepTwoUrlOk(url) == UrlMatches(url, "checkout-step-two.html")
\* toBeGreaterThanOrEqual in place of toBe
OverviewOkAtLeast(n) == n >= ExpectedOverview
OverviewOk(n) == n = ExpectedOverview
CompleteUrlOk(url) == UrlMatches(url, "checkout-complete.html")
HeaderOk(text) == text = ExpectedHeader
BodyOk(text) == ContainsText(text, ExpectedNotice)

\* a const of the test body: a failed expect unwinds the test function, and
\* the value read for the failed guard is lost with it
Local(ok, value, old) == IF ok THEN value ELSE old

\* bookkeeping of one guard: the first violated guard and the states entered
Note(ok, guard) == IF ok \/ violated # NoGuard THEN violated ELSE guard
Enter(ok, state) == IF ok THEN Append(visited, state) ELSE visited

\* authenticatedPage fixture: goto, login, expect inventory location
Authenticate ==
  /\ step = "fixture"
  /\ ops' = Append(ops, "submitCredentials")
  /\ \E url \in Locations :
       /\ urls' = Append(urls, url)
       /\ step' = Expect(InventoryUrlOk(url), "step1")
       /\ violated' = Note(InventoryUrlOk(url), "inventoryUrl")
       /\ visited' = Enter(InventoryUrlOk(url), "Authenticated")
  /\ UNCHANGED <<rejected, peer, selectorVars, cartItemCount, cartItemNames, record,
                 overviewItems, confirmationText, completeText>>

\* Step 1: the call inventoryPage.addRandomItemsToCart(3)
SelectItems ==
  /\ step = "step1"
  /\ ops' = Append(ops, "selectRandom")
  /\ count' = ItemsToAdd
  /\ pc' = "called"
  /\ step' = "selecting"
  /\ UNCHANGED <<rejected, peer, catalog, itemCount, randomIndices, pos, itemName, addedItems,
                 events, badgeText, cartCount, urls, cartItemCount,
                 cartItemNames, record, overviewItems, confirmationText,
                 completeText, visited, violated>>

\* Step 1: expect(addedItems.length).toBe(3)
CheckAdded ==
  /\ step = "selecting"
  /\ pc = "returned"
  /\ step' = Expect(AddedOk(addedItems), "badge")
  /\ violated' = Note(AddedOk(addedItems), "addedLength")
  /\ visited' = Enter(AddedOk(addedItems), "ItemsSelected")
  /\ UNCHANGED <<rejected, peer, selectorVars, urls, cartItemCount, cartItemNames, record,
                 overviewItems, confirmationText, completeText, ops>>

\* the rejection of addRandomItemsToCart propagates out of the test
SelectThrew ==
  /\ step = "selecting"
  /\ pc = "threw"
  /\ step' = "failed"
  /\ violated' = Note(FALSE, "elementUnavailable")
  /\ UNCHANGED <<rejected, peer, selectorVars, urls, cartItemCount, cartItemNames, record,
                 overviewItems, confirmationText, completeText, visited, ops>>

\* cartCount = await inventoryPage.getCartItemCount(); expect toBe('3')
CheckBadge ==
  /\ step = "badge"
  /\ \E text \in BadgeTexts :
       /\ badgeText' = text
       /\ cartCount' = GetCartItemCount(text)
       /\ step' = Expect(BadgeOk(GetCartItemCount(text)), "step2")
       /\ violated' = Note(BadgeOk(GetCartItemCount(text)), "badge")
  /\ UNCHANGED <<rejected, peer, catalog, pc, count, itemCount, randomIndices, pos, itemName,
                 addedItems, events, urls, cartItemCount, cartItemNames,
                 record, overviewItems, confirmationText, completeText,
                 visited, ops>>

\* Step 2: goToCart(); expect cart location
GoToCart ==
  /\ step = "step2"
  /\ ops' = Append(ops, "openCart")
  /\ \E url \in Locations :
       /\ urls' = Append(urls, url)
       /\ step' = Expect(CartUrlOk(url), "cartCount")
       /\ violated' = Note(CartUrlOk(url), "cartUrl")
  /\ UNCHANGED <<rejected, peer, selectorVars, cartItemCount, cartItemNames, record,
                 overviewItems, confirmationText, completeText, visited>>

\* cartItemCount = await cartPage.getCartItemCount(); expect toBe(3)
CheckCartCount ==
  /\ step = "cartCount"
  /\ \E n \in 0..MaxCartShown :
       /\ cartItemCount' = Local(CartCountOk(n), n, cartItemCount)
       /\ step' = Expect(CartCountOk(n), "cartNames")
       /\ violated' = Note(CartCountOk(n), "cartCount")
  /\ UNCHANGED <<rejected, peer, selectorVars, urls, cartItemNames, record, overviewItems,
                 confirmationText, completeText, visited, ops>>

\* cartItemNames = await cartPage.getCartItemNames(); length and containment
CheckCartNames ==
  /\ step = "cartNames"
  /\ \E names \in SeqsUpTo(ShownNames, MaxCartShown) :
       LET ok == CartNamesOk(names) /\ ContainsAll(names, addedItems) IN
         /\ cartItemNames' = Local(ok, names, cartItemNames)
         /\ step' = Expect(ok, "step3")
         /\ violated' = Note(ok, IF CartNamesOk(names) THEN "cartContains"
                                                       ELSE "cartNames")
         /\ visited' = Enter(ok, "CartReview")
  /\ UNCHANGED <<rejected, peer, selectorVars, urls, cartItemCount, record, overviewItems,
                 confirmationText, completeText, ops>>

\* Step 3: proceedToCheckout(); expect checkout-step-one location
ProceedToCheckout ==
  /\ step = "step3"
  /\ ops' = Append(ops, "proceedToCheckout")
  /\ \E url \in Locations :
       /\ urls' = Append(urls, url)
       /\ step' = Expect(StepOneUrlOk(url), "step4")
       /\ violated' = Note(StepOneUrlOk(url), "stepOneUrl")
       /\ visited' = Enter(StepOneUrlOk(url), "DetailsEntry")
  /\ UNCHANGED <<rejected, peer, selectorVars, cartItemCount, cartItemNames, record,
                 overviewItems, confirmationText, completeText>>

\* Step 4: faker data, fillCheckoutInformation(); expect step-two location
FillCheckoutInformation ==
  /\ step = "step4"
  /\ ops' = Append(ops, "submitDetails")
  /\ record' \in Records
  /\ \E url \in Locations :
       /\ urls' = Append(urls, url)
       /\ step' = Expect(StepTwoUrlOk(url), "step5")
       /\ violated' = Note(StepTwoUrlOk(url), "stepTwoUrl")
  /\ UNCHANGED <<rejected, peer, selectorVars, cartItemCount, cartItemNames, overviewItems,
                 confirmationText, completeText, visited>>

\* Step 5: overviewItems = await page.locator('.cart_item').count(); toBe(3)
CheckOverview ==
  /\ step = "step5"
  /\ \E n \in 0..MaxCartShown :
       /\ overviewItems' = Local(OverviewOk(n), n, overviewItems)
       /\ step' = Expect(OverviewOk(n), "step6")
       /\ violated' = Note(OverviewOk(n), "overview")
       /\ visited' = Enter(OverviewOk(n), "Overview")
  /\ UNCHANGED <<rejected, peer, selectorVars, urls, cartItemCount, cartItemNames, record,
                 confirmationText, completeText, ops>>

\* Step 6: finishCheckout(); expect checkout-complete location
FinishCheckout ==
  /\ step = "step6"
  /\ ops' = Append(ops, "confirmOrder")
  /\ \E url \in Locations :
       /\ urls' = Append(urls, url)
       /\ step' = Expect(CompleteUrlOk(url), "step7")
       /\ violated' = Note(CompleteUrlOk(url), "completeUrl")
       /\ visited' = Enter(CompleteUrlOk(url), "Completed")
  /\ UNCHANGED <<rejected, peer, selectorVars, cartItemCount, cartItemNames, record,
                 overviewItems, confirmationText, completeText>>

\* CheckoutPage.getOrderConfirmationText: completeHeader.textContent() || ''
GetOrderConfirmationText(text) == OrElse(text, "")

\* Step 7: header equals the message, body contains the dispatch notice
VerifyConfirmation ==
  /\ step = "step7"
  /\ \E header \in HeaderTexts, body \in BodyTexts :
       LET text == GetOrderConfirmationText(header) IN
         /\ confirmationText' = Local(HeaderOk(text), text, confirmationText)
         /\ completeText' = Local(HeaderOk(text) /\ BodyOk(body), body, completeText)
         /\ step' = Expect(HeaderOk(text) /\ BodyOk(body), "passed")
         /\ violated' = Note(HeaderOk(text) /\ BodyOk(body),
                             IF HeaderOk(text) THEN "body" ELSE "header")
  /\ UNCHANGED <<rejected, peer, selectorVars, urls, cartItemCount, cartItemNames, record,
                 overviewItems, visited, ops>>

Test ==
  \/ Authenticate
  \/ SelectItems
  \/ CheckAdded
  \/ SelectThrew
  \/ CheckBadge
  \/ GoToCart
  \/ CheckCartCount
  \/ CheckCartNames
  \/ ProceedToCheckout
  \/ FillCheckoutInformation
  \/ CheckOverview
  \/ FinishCheckout
  \/ VerifyConfirmation

(* --------------------------- specifications --------------------------- *)
InitFlowVars ==
  /\ urls = <<>>
  /\ cartItemCount = 0
  /\ cartItemNames = <<>>
  /\ record = NoRecord
  /\ overviewItems = 0
  /\ confirmationText = ""
  /\ completeText = <<>>
  /\ visited = <<"Unauthenticated">>
  /\ ops = <<>>
  /\ violated = NoGuard

InitSelectorVars ==
  /\ catalog \in Catalogs
  /\ itemCount = 0
  /\ randomIndices = <<>>
  /\ pos = 0
  /\ itemName = NULL
  /\ addedItems = <<>>
  /\ events = <<>>
  /\ badgeText = NULL
  /\ cartCount = ""
  /\ rejected = NoRejection
  /\ peer = IdleRun

\* the checkout test, run from its fixtures
Init ==
  /\ InitSelectorVars
  /\ InitFlowVars
  /\ pc = "idle"
  /\ count = 0
  /\ step = "fixture"

Next ==
  \/ Test
  \/ AddRandomItemsToCart

Spec == Init /\ [][Next]_vars

\* the counts addRandomItemsToCart is called with: a negative one, zero, and
\* the positive ones up to MaxCount
Counts == {-1} \cup 0..MaxCount

\* addRandomItemsToCart(count) called on a fresh page for any count, then
\* getCartItemCount
SelectorInit ==
  /\ InitSelectorVars
  /\ InitFlowVars
  /\ pc = "called"
  /\ count \in Counts
  /\ step = "selector"

ReadBadge ==
  /\ step = "selector"
  /\ pc = "returned"
  /\ \E text \in BadgeTexts :
       /\ badgeText' = text
       /\ cartCount' = GetCartItemCount(text)
  /\ pc' = "finished"
  /\ UNCHANGED <<rejected, peer, flowVars, catalog, count, itemCount, randomIndices, pos,
                 itemName, addedItems, events>>

SelectorNext ==
  \/ AddRandomItemsToCart
  \/ ReadBadge

SelectorSpec == SelectorInit /\ [][SelectorNext]_vars

\* fair random draws: the draw loop is not starved of the indices it lacks
FairSelectorSpec == SelectorSpec /\ WF_vars(SelectorNext)

(* ------------- addRandomItemsToCart on a page that re-renders -------- *)
\* the display names of the storefront's inventory, by position
ListedNames == <<"Backpack", "", "Bike Light", NULL, "Onesie">>
Listing(i) == ListedNames[((i - 1) % Len(ListedNames)) + 1]

\* the inventory lists a page can render: the first n listed entries
SiteCatalogs == {[i \in 1..n |-> Listing(i)] : n \in 0..MaxCatalog}

\* this.inventoryItems is a locator, resolved against the page at each use:
\* the page renders another list while the method is running
CatalogChanges ==
  /\ step = "selector"
  /\ pc \in {"draw", "iterate", "click"}
  /\ catalog' \in SiteCatalogs \ {catalog}
  /\ UNCHANGED <<rejected, peer, flowVars, pc, count, itemCount, randomIndices, pos,
                 itemName, addedItems, events, badgeText, cartCount>>

ChangingInit ==
  /\ SelectorInit
  /\ catalog \in SiteCatalogs

ChangingNext ==
  \/ AddRandomItemsToCart
  \/ CatalogChanges

ChangingSpec == ChangingInit /\ [][ChangingNext]_vars

(* ----------- two runs, each on its own page of the storefront -------- *)
\* the steps of the second run's addRandomItemsToCart: the same method on
\* the run's own InventoryPage, its locals in the record peer
PeerGetItemCount ==
  /\ peer.pc = "called"
  /\ peer' = [peer EXCEPT !.itemCount = Len(catalog),
                          !.addedItems = <<>>,
                          !.randomIndices = NewSet(randomIndices),
                          !.pc = "draw"]
  /\ UNCHANGED <<selectorVars, flowVars, rejected>>

PeerDraw ==
  /\ peer.pc = "draw"
  /\ DrawMore(Len(peer.randomIndices), peer.count, peer.itemCount)
  /\ \E i \in RandomIndex(peer.itemCount) :
       peer' = [peer EXCEPT !.randomIndices = SetAdd(@, i)]
  /\ UNCHANGED <<selectorVars, flowVars, rejected>>

PeerDrawDone ==
  /\ peer.pc = "draw"
  /\ ~DrawMore(Len(peer.randomIndices), peer.count, peer.itemCount)
  /\ peer' = [peer EXCEPT !.pos = 1, !.pc = "iterate"]
  /\ UNCHANGED <<selectorVars, flowVars, rejected>>

PeerReadName ==
  /\ peer.pc = "iterate"
  /\ peer.pos <= Len(peer.randomIndices)
  /\ LET index == IndexAt(peer.randomIndices, peer.pos) IN
       /\ Rendered(index)
       /\ peer' = [peer EXCEPT !.itemName = catalog[index + 1],
                               !.events = Append(@, ReadEvent(index)),
                               !.pc = "click"]
  /\ UNCHANGED <<selectorVars, flowVars, rejected>>

PeerClickAdd ==
  /\ peer.pc = "click"
  /\ LET index == IndexAt(peer.randomIndices, peer.pos) IN
       /\ Rendered(index)
       /\ peer' = [peer EXCEPT !.events = Append(@, ClickEvent(index)),
                               !.addedItems = PushName(@, peer.itemName),
                               !.pos = @ + 1,
                               !.pc = "iterate"]
  /\ UNCHANGED <<selectorVars, flowVars, rejected>>

PeerElementUnavailable ==
  /\ peer.pc = "click" \/ (peer.pc = "iterate" /\ peer.pos <= Len(peer.randomIndices))
  /\ peer' = [peer EXCEPT !.pc = Rejection(peer.pc)]
  /\ UNCHANGED <<selectorVars, flowVars, rejected>>

PeerReturn ==
  /\ peer.pc = "iterate"
  /\ peer.pos > Len(peer.randomIndices)
  /\ peer' = [peer EXCEPT !.pc = "returned"]
  /\ UNCHANGED <<selectorVars, flowVars, rejected>>

PeerAddRandomItemsToCart ==
  \/ PeerGetItemCount
  \/ PeerDraw
  \/ PeerDrawDone
  \/ PeerReadName
  \/ PeerClickAdd
  \/ PeerElementUnavailable
  \/ PeerReturn

\* both runs have called addRandomItemsToCart, the second one as the test does
ConcurrentInit ==
  /\ InitFlowVars
  /\ catalog \in SiteCatalogs
  /\ itemCount = 0
  /\ randomIndices = <<>>
  /\ pos = 0
  /\ itemName = NULL
  /\ addedItems = <<>>
  /\ events = <<>>
  /\ badgeText = NULL
  /\ cartCount = ""
  /\ rejected = NoRejection
  /\ pc = "called"
  /\ count \in Counts
  /\ step = "selector"
  /\ peer = [IdleRun EXCEPT !.pc = "called", !.count = ItemsToAdd]

\* the runs are scheduled independently: any interleaving of their steps
ConcurrentNext ==
  \/ AddRandomItemsToCart
  \/ PeerAddRandomItemsToCart

ConcurrentSpec == ConcurrentInit /\ [][ConcurrentNext]_vars

(* ------------------------------ claims -------------------------------- *)
\* the draw loop of addRandomItemsToCart has finished
DrawLoopFinished == pc \in {"iterate", "click", "threw", "returned", "finished"}

\* C1: for every count >= 0 and every catalog size n, when the draw loop has
\* finished the drawn indices are exactly min(count, n) many, each one an
\* integer in [0, n), and no index occurs twice.
C1_SelectionSet ==
  (DrawLoopFinished /\ count >= 0) =>
    /\ Len(randomIndices) = Min(count, Len(catalog))
    /\ \A k \in 1..Len(randomIndices) :
         randomIndices[k] \in Int /\ 0 <= randomIndices[k]
                                  /\ randomIndices[k] < Len(catalog)
    /\ \A j, k \in 1..Len(randomIndices) :
         randomIndices[j] = randomIndices[k] => j = k

C1_Witness ==
  /\ pc = "returned"
  /\ count = 2
  /\ Len(catalog) = 3
  /\ Len(randomIndices) = 2

\* C2: for every count and every catalog, whatever the display names
\* (absent and empty ones included), the list addRandomItemsToCart returns
\* has one name per selected index: its length is the Selection Set's size.
C2_OneNamePerIndex ==
  pc \in {"returned", "finished"} =>
    Len(addedItems) = Cardinality(Range(randomIndices))

\* C3: a run reports success only if every guard held, in order: inventory
\* location after login, Added-Item List length k, badge text the decimal
\* of k, cart location, cart item count k and every added name among the
\* cart names, checkout-step-one location, checkout-step-two location and
\* overview count k, checkout-complete location, the confirmation header
\* and the dispatch notice in the body.
C3_SuccessOnlyIfAllGuards ==
  step = "passed" =>
    /\ urls = <<"/inventory.html", "/cart.html", "/checkout-step-one.html",
                "/checkout-step-two.html", "/checkout-complete.html">>
    /\ Len(addedItems) = ItemsToAdd
    /\ cartCount = Decimal(ItemsToAdd)
    /\ cartItemCount = ItemsToAdd
    /\ \A i \in 1..Len(addedItems) :
         \E j \in 1..Len(cartItemNames) : cartItemNames[j] = addedItems[i]
    /\ overviewItems = ItemsToAdd
    /\ confirmationText = "Thank you for your order!"
    /\ \E i \in 1..Len(completeText) :
         completeText[i] = "Your order has been dispatched"

C3_Witness ==
  /\ step = "passed"
  /\ Len(addedItems) = ItemsToAdd
  /\ Len(urls) = 5

\* the CartReview guard has passed after the open-cart transition
CartReviewPassed == \E i \in 1..Len(visited) : visited[i] = "CartReview"

\* the names of the Added-Item List are pairwise distinct
AddedNamesDistinct ==
  \A i, j \in 1..Len(addedItems) : addedItems[i] = addedItems[j] => i = j

\* C4 (as stated): in every run that passes the CartReview guard, the
\* Added-Item List's names as a set equal the set of names shown on the
\* cart screen.
C4_CartNamesEqualAdded ==
  CartReviewPassed => Range(addedItems) = Range(cartItemNames)

\* C4 (amended): in every run that passes the CartReview guard and whose
\* Added-Item List holds pairwise distinct names, the Added-Item List's
\* names as a set equal the set of names shown on the cart screen.
C4_CartNamesEqualDistinctAdded ==
  (CartReviewPassed /\ AddedNamesDistinct) =>
    Range(addedItems) = Range(cartItemNames)

C4_Witness ==
  /\ CartReviewPassed
  /\ AddedNamesDistinct
  /\ Cardinality(Range(cartItemNames)) = ItemsToAdd

\* the badge of a storefront whose cart, empty at the start, holds the
\* clicked entries: absent for an empty cart, else the decimal of its size
StorefrontBadge ==
  IF Len(Clicked) = 0 THEN NULL ELSE Decimal(Cardinality(Range(Clicked)))

\* C5: starting from an empty cart, after addRandomItemsToCart(count) has
\* returned, getCartItemCount() returns the decimal string of the Selection
\* Set's size, and '0' when nothing was added and the badge is absent (for
\* every count, those of [0, n] included).
C5_BadgeIsSelectionSize ==
  (pc = "finished" /\ badgeText = StorefrontBadge) =>
    cartCount = Decimal(Cardinality(Range(randomIndices)))

C5_Witness ==
  /\ pc = "finished"
  /\ badgeText = StorefrontBadge
  /\ count = 2
  /\ Len(catalog) = 3
  /\ cartCount = "2"

\* addRandomItemsToCart has terminated (by a return or by a rejection)
Terminated == pc \in {"returned", "finished", "threw"}

\* every name of the catalog is a non-empty text
AllNamed == \A i \in 1..Len(catalog) : catalog[i] # NULL /\ catalog[i] # ""

\* C6: under fair random draws addRandomItemsToCart terminates for every
\* count and every catalog size n, and when count > n it returns with the
\* whole catalog selected: n indices, n add clicks, and a list of n names
\* when every entry has one.
C6_TerminatesAndClamps ==
  /\ <>Terminated
  /\ [](pc = "returned" /\ count > Len(catalog) =>
          /\ Range(randomIndices) = 0..(Len(catalog) - 1)
          /\ Len(randomIndices) = Len(catalog)
          /\ Len(Clicked) = Len(catalog)
          /\ (AllNamed => Len(addedItems) = Len(catalog)))

C6_Witness ==
  /\ pc = "returned"
  /\ count > Len(catalog)
  /\ Len(catalog) = 3
  /\ Len(addedItems) = 3

\* C7: when count <= 0 or the catalog is empty, addRandomItemsToCart draws
\* no index, reads no name, clicks nothing, does not fail, and the list it
\* returns is empty.
C7_DegenerateSelection ==
  (count <= 0 \/ Len(catalog) = 0) =>
    /\ randomIndices = <<>>
    /\ events = <<>>
    /\ pc # "threw"
    /\ addedItems = <<>>

C7_Witness ==
  /\ pc = "returned"
  /\ count <= 0
  /\ Len(catalog) = 2
  /\ addedItems = <<>>

\* the display names of the drawn entries, in draw order
DrawnNames == [k \in 1..Len(randomIndices) |-> catalog[randomIndices[k] + 1]]

\* C8: the drawn indices are processed in the order they were first drawn:
\* the operations on the entries are read, click, read, click, ... over the
\* indices in draw order (each name read before its click, each click before
\* the next read), and the list holds the names read so far in that order.
C8_DrawOrder ==
  /\ \A j \in 1..Len(events) :
       /\ (j + 1) \div 2 <= Len(randomIndices)
       /\ events[j].op = (IF j % 2 = 1 THEN "read" ELSE "click")
       /\ events[j].index = randomIndices[(j + 1) \div 2]
  /\ DrawLoopFinished =>
       addedItems = SelectSeq(SubSeq(DrawnNames, 1, Len(events) \div 2),
                              LAMBDA t : t # NULL /\ t # "")

C8_Witness ==
  /\ pc = "returned"
  /\ Len(events) = 4
  /\ randomIndices[1] > randomIndices[2]
  /\ Len(addedItems) = 2
  /\ addedItems[1] # addedItems[2]

IsPrefix(s, t) == Len(s) <= Len(t) /\ \A i \in 1..Len(s) : s[i] = t[i]

\* the run has entered Completed or has failed
FlowEnded ==
  violated # NoGuard \/ \E i \in 1..Len(visited) : visited[i] = "Completed"

\* C9: every run visits the flow states in the fixed order Unauthenticated,
\* Authenticated, ItemsSelected, CartReview, DetailsEntry, Overview,
\* Completed, without skipping or revisiting one; the action of a transition
\* is issued only in the state it leaves (so only after the guard of that
\* state held, and nothing is selected before the login guard passed); and
\* no transition follows Completed or a failure.
C9_LinearFlow ==
  /\ [](/\ IsPrefix(visited, FlowOrder)
        /\ IsPrefix(ops, ActionOrder)
        /\ Len(ops) <= Len(visited)
        /\ Len(visited) <= Len(ops) + 1
        /\ (pc # "idle" \/ events # <<>>) => Len(visited) >= 2)
  /\ [][FlowEnded => (ops' = ops /\ visited' = visited)]_vars

C9_Witness ==
  /\ step = "passed"
  /\ visited = FlowOrder
  /\ ops = ActionOrder

\* C10: once a guard is violated the run has failed at that guard and
\* nothing happens afterwards: no transition action, no retry, no rollback
\* of the items added, no report of success.
C10_FailStop ==
  /\ [](violated # NoGuard => step = "failed")
  /\ [][violated # NoGuard => UNCHANGED vars]_vars

C10_Witness ==
  /\ violated = "cartContains"
  /\ step = "failed"
  /\ Len(Clicked) = ItemsToAdd
  /\ ops = <<"submitCredentials", "selectRandom", "openCart">>

\* the run has entered the Overview state
OverviewReached == \E i \in 1..Len(visited) : visited[i] = "Overview"

\* C11: in every run that reaches the Overview state the number of line
\* items read on the checkout overview equals the Selection Set's size,
\* whichever first name, last name and postal code were submitted.
C11_OverviewCount ==
  OverviewReached =>
    /\ overviewItems = Cardinality(Range(randomIndices))
    /\ record \in Records

C11_Witness ==
  /\ OverviewReached
  /\ record = <<"Bo", "Ng", "99999">>
  /\ overviewItems = ItemsToAdd
  /\ Len(randomIndices) = ItemsToAdd

\* the number of add-to-cart clicks issued on the entry with index i
ClicksOn(i) == Cardinality({j \in 1..Len(events) :
                              events[j].op = "click" /\ events[j].index = i})

\* some selected entry has an absent or empty display name
SomeSelectedUnnamed ==
  \E k \in 1..Len(randomIndices) :
    catalog[randomIndices[k] + 1] \in {NULL, ""}

ItemsSelectedReached == \E i \in 1..Len(visited) : visited[i] = "ItemsSelected"

\* C13: once the name read or the add click of the j-th drawn entry is
\* rejected, addRandomItemsToCart has failed at that operation and stays
\* failed: it returns no list, the flow does not get past the selection,
\* only the first j drawn entries have been read or clicked, the j - 1
\* clicks made before stay made, and nothing of the invocation changes
\* afterwards.
C13_RejectionPropagates ==
  /\ [](rejected # NoRejection =>
          /\ pc = "threw"
          /\ step \in {"selecting", "failed"}
          /\ ~ItemsSelectedReached
          /\ pos \in 1..Len(randomIndices)
          /\ rejected[1].index = randomIndices[pos]
          /\ \A j \in 1..Len(events) :
               \E k \in 1..pos : events[j].index = randomIndices[k]
          /\ Len(Clicked) = pos - 1
          /\ \A k \in 1..(pos - 1) : Clicked[k].index = randomIndices[k]
          /\ Len(events) = 2 * (pos - 1) + (IF rejected[1].op = "click" THEN 1 ELSE 0))
  /\ [][rejected # NoRejection => UNCHANGED <<selectorVars, rejected>>]_vars

C13_Witness ==
  /\ rejected # NoRejection
  /\ rejected[1].op = "click"
  /\ pos = 2
  /\ Len(Clicked) = 1
  /\ step = "failed"
  /\ violated = "elementUnavailable"

\* C15: addRandomItemsToCart reads the catalog size once, when it starts
\* and before any draw, and that reading alone bounds the selection; no name
\* is read and no entry clicked before the last draw; once the draw loop
\* has finished neither a read, a click nor a change of the rendered
\* catalog changes the Selection Set.
C15_SelectionFixedFirst ==
  /\ [][pc = "called" => (itemCount' = Len(catalog) /\ randomIndices' = <<>>)]_vars
  /\ [][pc # "called" => itemCount' = itemCount]_vars
  /\ []((DrawLoopFinished /\ count >= 0) =>
          /\ Len(randomIndices) = Min(count, itemCount)
          /\ \A k \in 1..Len(randomIndices) : randomIndices[k] \in 0..(itemCount - 1))
  /\ []((pc = "draw" /\ count >= 0) => Len(randomIndices) <= Min(count, itemCount))
  /\ [](pc \in {"called", "draw"} => events = <<>>)
  /\ [][DrawLoopFinished => randomIndices' = randomIndices]_vars

C15_Witness ==
  /\ pc = "returned"
  /\ itemCount = 2
  /\ Len(catalog) # itemCount
  /\ Len(randomIndices) = 2
  /\ Len(Clicked) = 2

\* C16: with a catalog of fewer than 3 entries the flow's request for 3 items
\* selects the whole catalog, the guard on the Added-Item List's length is the
\* one that fails when the selection returns, and the run neither opens the
\* cart nor reaches Completed.
C16_SmallCatalogFails ==
  Len(catalog) < 3 =>
    /\ DrawLoopFinished =>
         /\ Len(randomIndices) = Len(catalog)
         /\ Range(randomIndices) = 0..(Len(catalog) - 1)
    /\ (pc = "returned" /\ step # "selecting") =>
         (step = "failed" /\ violated = "addedLength")
    /\ ~ItemsSelectedReached
    /\ \A i \in 1..Len(ops) : ops[i] \notin {"openCart", "confirmOrder"}
    /\ \A i \in 1..Len(visited) : visited[i] \notin {"CartReview", "Completed"}
    /\ step \in {"fixture", "step1", "selecting", "failed"}

C16_Witness ==
  /\ Len(catalog) = 2
  /\ pc = "returned"
  /\ Len(addedItems) = 2
  /\ step = "failed"
  /\ violated = "addedLength"

\* the locals of the first run's addRandomItemsToCart, as a record
Own == [pc |-> pc, count |-> count, itemCount |-> itemCount,
        randomIndices |-> randomIndices, pos |-> pos, itemName |-> itemName,
        addedItems |-> addedItems, events |-> events]

\* the state r is one that addRandomItemsToCart(r.count) reaches when it
\* runs alone on the catalog
AsIfAlone(r) ==
  LET sel == r.randomIndices
      size == Min(r.count, Len(catalog))
      done == (Len(r.events) \div 2)
      names == [k \in 1..done |-> catalog[sel[k] + 1]]
  IN /\ r.pc \in {"idle", "called"} =>
          (sel = <<>> /\ r.events = <<>> /\ r.addedItems = <<>>)
     /\ r.pc \notin {"idle", "called"} => r.itemCount = Len(catalog)
     /\ \A k \in 1..Len(sel) : sel[k] \in 0..(Len(catalog) - 1)
     /\ \A j, k \in 1..Len(sel) : sel[j] = sel[k] => j = k
     /\ r.pc = "draw" => (Len(sel) <= size \/ (r.count < 0 /\ sel = <<>>))
     /\ (r.pc \in {"iterate", "click", "threw", "returned"} /\ r.count >= 0) =>
          Len(sel) = size
     /\ \A j \in 1..Len(r.events) :
          /\ (j + 1) \div 2 <= Len(sel)
          /\ r.events[j].op = (IF j % 2 = 1 THEN "read" ELSE "click")
          /\ r.events[j].index = sel[(j + 1) \div 2]
     /\ r.addedItems = SelectSeq(names, LAMBDA t : t # NULL /\ t # "")
     /\ r.pc = "returned" => Len(r.events) = 2 * Len(sel)

\* C12: with two runs interleaved in any order, each run's Selection Set,
\* Added-Item List and clicks are at every moment those of a run that
\* executes alone, and no step of one run changes anything of the other.
C12_RunsIsolated ==
  /\ [](AsIfAlone(Own) /\ AsIfAlone(peer))
  /\ [][(peer' # peer) => UNCHANGED <<selectorVars, rejected>>]_vars
  /\ [][(<<selectorVars, rejected>>' # <<selectorVars, rejected>>) => peer' = peer]_vars

C12_Witness ==
  /\ pc = "click"
  /\ peer.pc = "click"
  /\ count = 2
  /\ pos = 2
  /\ peer.pos = 2
  /\ randomIndices[pos] # peer.randomIndices[peer.pos]
  /\ Len(peer.randomIndices) = 3

====
